---- MODULE Spec2Model ----
(***************************************************************************)
(* Model of the zlock server, src/zprocess/locking/server.py: the          *)
(* reentrant readers-writer Lock, the LockRequest state machine, the       *)
(* TaskQueue and the single-threaded loop of ZMQLockServer.run.            *)
(*                                                                         *)
(* A handler is a chain of operators over a record S that holds the        *)
(* server's mutable objects during the handler:                            *)
(*   S.active_locks, S.active_requests, S.tasks  the server's fields       *)
(*   S.sent   the replies sent so far by this handler                      *)
(*   S.exc    the exception propagating, "none" when there is none         *)
(*   S.ret    the value returned by the last Lock.acquire                  *)
(*   S.acq    the clients returned by the last Lock.release, in the order  *)
(*            in which the set is iterated                                 *)
(*   S.calls  the calls of Lock methods made so far by this handler, each  *)
(*            with what it returned or raised                              *)
(* An uncaught exception leaves run(): the state keeps what the handler    *)
(* had changed so far, and `crashed` names the exception.                  *)
(***************************************************************************)
EXTENDS Integers, Sequences, FiniteSets, TLC

\* ---------------------------------------------------------------- bounds
\* The loop fires a due task before it is overdue by more than MaxOverdue seconds
\* (frames that arrive at the instant a task is due may still be handled first).
MaxOverdue == 0
\* No acquire frame is sent by a client whose reentry level is MaxReentry.
MaxReentry == 2
\* Client-supplied timeouts are 0..MaxTimeout seconds.
MaxTimeout == 2

\* ------------------------------------------------------ program constants
MAX_RESPONSE_TIME == 1
MAX_ABSENT_TIME == 1

Keys == {"k"}
Clients == {"c1", "c2", "c3"}

\* The frames the clients send: c1 is a peer that reconnects (two routing ids)
\* and asks for leases of 0 and of MaxTimeout seconds; c2 and c3 keep one
\* routing id and ask for MaxTimeout seconds. c1 asks in both modes, c2 only
\* writes and c3 only reads.
RoutingIds(c) == IF c = "c1" THEN {"r1", "r2"} ELSE {"r1"}
Timeouts(c) == IF c = "c1" THEN {0, MaxTimeout} ELSE {MaxTimeout}
Modes(c) == IF c = "c1" THEN BOOLEAN ELSE IF c = "c2" THEN {FALSE} ELSE {TRUE}

None == "None"

\* {} as a dict
EmptyDict == [x \in {} |-> 0]

ERR_NOT_HELD == "error: lock not held"
ERR_INVALID_REENTRY == "error: lock already held read-only, cannot re-enter as writer"
ERR_CONCURRENT == "error: multiple concurrent requests with same key and client_id"
ERR_INVALID_COMMAND == "error: invalid command"

\* enum rs
INITIAL == "INITIAL"
PRESENT_WAITING == "PRESENT_WAITING"
ABSENT_WAITING == "ABSENT_WAITING"
ABSENT_HELD == "ABSENT_HELD"
HELD == "HELD"

VARIABLES
    active_locks,     \* ZMQLockServer.active_locks: key -> Lock
    active_requests,  \* ZMQLockServer.active_requests: <<key, client_id>> -> LockRequest
    tasks,            \* ZMQLockServer.tasks: the TaskQueue, soonest task last
    sent,             \* the replies sent by the last handler, in order
    calls,            \* the Lock methods the last handler called, with their results
    crashed,          \* what ended run(): "none" while it loops, the uncaught
                      \* exception, or "break" for the break on an accepted stop
    stopping          \* ZMQLockServer.stopping

vars == <<active_locks, active_requests, tasks, sent, calls, crashed, stopping>>

\* ------------------------------------------------------------- helpers
Raise(S, e) == [S EXCEPT !.exc = e]

Ok(S) == S.exc = "none"

\* dict d without key x
DictDel(d, x) == [y \in (DOMAIN d) \ {x} |-> d[y]]

\* dict d with d[x] = v
DictSet(d, x, v) == [y \in (DOMAIN d) \cup {x} |-> IF y = x THEN v ELSE d[y]]

\* defaultdict(int): d[x] += 1
DictIncr(d, x) == DictSet(d, x, (IF x \in DOMAIN d THEN d[x] ELSE 0) + 1)

SetLock(S, k, L) == [S EXCEPT !.active_locks = DictSet(@, k, L)]

SetReq(S, k, c, R) == [S EXCEPT !.active_requests = DictSet(@, <<k, c>>, R)]

\* ZMQLockServer.send
Send(S, routing_id, message) == [S EXCEPT !.sent = Append(@, <<routing_id, message>>)]

\* The members of set s in the order of sequence ord (the iteration order of a
\* Python set is arbitrary: ord is chosen by the action).
RECURSIVE InOrder(_, _)
InOrder(ord, s) ==
    IF ord = <<>> THEN <<>>
    ELSE IF Head(ord) \in s THEN <<Head(ord)>> \o InOrder(Tail(ord), s)
    ELSE InOrder(Tail(ord), s)

Perms == {p \in [1..Cardinality(Clients) -> Clients] : \A c \in Clients : \E i \in DOMAIN p : p[i] = c}

\* The orders that make a difference for the lock of key k: one order when no
\* waiting set has two members
Orders(locks, k) ==
    IF k \in DOMAIN locks /\ (Cardinality(locks[k].waiting_readers) > 1
                              \/ Cardinality(locks[k].waiting_writers) > 1)
    THEN Perms
    ELSE {CHOOSE p \in Perms : TRUE}

\* ----------------------------------------------------------------- Lock
\* Lock.__init__
NewLock ==
    [waiting_readers |-> {}, waiting_writers |-> {}, readers |-> EmptyDict,
     writer |-> None, writer_reentrancy_level |-> 0, invalid |-> FALSE]

\* Lock.instance
Lock_instance(S, k) ==
    IF k \in DOMAIN S.active_locks THEN S ELSE SetLock(S, k, NewLock)

\* A _check_cleanup that never removes the lock
Lock_check_cleanup_keeping(S, k) == S

\* Lock._check_cleanup, on the lock object that Lock.instance returned for k
Lock_check_cleanup(S, k) ==
    LET L == S.active_locks[k] IN
    IF DOMAIN L.readers = {} /\ L.waiting_readers = {} /\ L.waiting_writers = {}
       /\ L.writer = None
    THEN [S EXCEPT !.active_locks = DictDel(@, k)]
    ELSE S

\* Lock.acquire without writer priority: a reader is admitted whenever no
\* writer holds the lock, whether or not a writer waits
Lock_acquire_body_no_priority(S, k, c, read_only) ==
    LET L == S.active_locks[k] IN
    IF c \in L.waiting_readers \/ c \in L.waiting_writers
    THEN Raise(S, "AlreadyWaiting")
    ELSE IF read_only
    THEN IF L.writer # None
         THEN [SetLock(S, k, [L EXCEPT !.waiting_readers = @ \cup {c}]) EXCEPT !.ret = FALSE]
         ELSE [SetLock(S, k, [L EXCEPT !.readers = DictIncr(@, c)]) EXCEPT !.ret = TRUE]
    ELSE IF c \in DOMAIN L.readers
         THEN Raise(S, "InvalidReentry")
         ELSE IF L.writer \in {None, c} /\ DOMAIN L.readers = {}
         THEN [SetLock(S, k, [L EXCEPT !.writer = c, !.writer_reentrancy_level = @ + 1])
                  EXCEPT !.ret = TRUE]
         ELSE [SetLock(S, k, [L EXCEPT !.waiting_writers = @ \cup {c}]) EXCEPT !.ret = FALSE]

\* Lock.acquire without the test that refuses a reader who asks to write
Lock_acquire_body_unchecked(S, k, c, read_only) ==
    LET L == S.active_locks[k] IN
    IF c \in L.waiting_readers \/ c \in L.waiting_writers
    THEN Raise(S, "AlreadyWaiting")
    ELSE IF read_only
    THEN IF L.writer # None
         THEN [SetLock(S, k, [L EXCEPT !.waiting_readers = @ \cup {c}]) EXCEPT !.ret = FALSE]
         ELSE IF L.waiting_writers # {}
         THEN IF c \in DOMAIN L.readers
              THEN [SetLock(S, k, [L EXCEPT !.readers = DictIncr(@, c)]) EXCEPT !.ret = TRUE]
              ELSE [SetLock(S, k, [L EXCEPT !.waiting_readers = @ \cup {c}]) EXCEPT !.ret = FALSE]
         ELSE [SetLock(S, k, [L EXCEPT !.readers = DictIncr(@, c)]) EXCEPT !.ret = TRUE]
    ELSE IF L.writer \in {None, c} /\ DOMAIN L.readers = {}
         THEN [SetLock(S, k, [L EXCEPT !.writer = c, !.writer_reentrancy_level = @ + 1])
                  EXCEPT !.ret = TRUE]
         ELSE [SetLock(S, k, [L EXCEPT !.waiting_writers = @ \cup {c}]) EXCEPT !.ret = FALSE]

\* The try block of Lock.acquire
Lock_acquire_body(S, k, c, read_only) ==
    LET L == S.active_locks[k] IN
    IF c \in L.waiting_readers \/ c \in L.waiting_writers
    THEN Raise(S, "AlreadyWaiting")
    ELSE IF read_only
    THEN IF L.writer # None
         THEN [SetLock(S, k, [L EXCEPT !.waiting_readers = @ \cup {c}]) EXCEPT !.ret = FALSE]
         ELSE IF L.waiting_writers # {}
         THEN IF c \in DOMAIN L.readers
              THEN [SetLock(S, k, [L EXCEPT !.readers = DictIncr(@, c)]) EXCEPT !.ret = TRUE]
              ELSE [SetLock(S, k, [L EXCEPT !.waiting_readers = @ \cup {c}]) EXCEPT !.ret = FALSE]
         ELSE [SetLock(S, k, [L EXCEPT !.readers = DictIncr(@, c)]) EXCEPT !.ret = TRUE]
    ELSE IF c \in DOMAIN L.readers
         THEN Raise(S, "InvalidReentry")
         ELSE IF L.writer \in {None, c} /\ DOMAIN L.readers = {}
         THEN [SetLock(S, k, [L EXCEPT !.writer = c, !.writer_reentrancy_level = @ + 1])
                  EXCEPT !.ret = TRUE]
         ELSE [SetLock(S, k, [L EXCEPT !.waiting_writers = @ \cup {c}]) EXCEPT !.ret = FALSE]

\* Lock.acquire: the try block, then the finally clause
Lock_acquire(S, k, c, read_only) ==
    IF S.active_locks[k].invalid THEN Raise(S, "RuntimeError")
    ELSE LET S1 == Lock_check_cleanup(Lock_acquire_body(S, k, c, read_only), k) IN
         [S1 EXCEPT !.calls = Append(@, [op |-> "acquire", key |-> k, client_id |-> c,
                                         read_only |-> read_only, raised |-> S1.exc,
                                         ret |-> S1.exc = "none" /\ S1.ret])]

\* self.waiting_writers.pop(): an arbitrary member, the first one in ord
PopWriter(L, ord) == InOrder(ord, L.waiting_writers)[1]

\* The branch `client_id in self.readers` of Lock.release
Lock_release_reader(S, k, c, fully, ord) ==
    LET L == S.active_locks[k]
        n == L.readers[c] - 1
        rd == IF n = 0 \/ fully THEN DictDel(L.readers, c) ELSE DictSet(L.readers, c, n)
        L1 == [L EXCEPT !.readers = rd]
    IN  IF L1.waiting_writers # {} /\ DOMAIN L1.readers = {}
        THEN LET w == PopWriter(L1, ord) IN
             [SetLock(S, k, [L1 EXCEPT !.writer = w, !.waiting_writers = @ \ {w},
                                       !.writer_reentrancy_level = 1])
                 EXCEPT !.acq = <<w>>]
        ELSE [SetLock(S, k, L1) EXCEPT !.acq = <<>>]

\* The writer's release with the two tests swapped: waiting readers are
\* granted before a waiting writer
Lock_release_writer_readers_first(S, k, c, fully, ord) ==
    LET L == S.active_locks[k]
        n == L.writer_reentrancy_level - 1
        L1 == IF n = 0 \/ fully
              THEN [L EXCEPT !.writer = None, !.writer_reentrancy_level = 0]
              ELSE [L EXCEPT !.writer_reentrancy_level = n]
    IN  IF L1.waiting_readers # {}
        THEN [SetLock(S, k, [L1 EXCEPT
                  !.readers = [x \in (DOMAIN @) \cup L1.waiting_readers |->
                                  (IF x \in DOMAIN @ THEN @[x] ELSE 0)
                                  + (IF x \in L1.waiting_readers THEN 1 ELSE 0)],
                  !.waiting_readers = {}])
                 EXCEPT !.acq = InOrder(ord, L1.waiting_readers)]
        ELSE IF L1.waiting_writers # {}
        THEN LET w == PopWriter(L1, ord) IN
             [SetLock(S, k, [L1 EXCEPT !.writer = w, !.waiting_writers = @ \ {w},
                                       !.writer_reentrancy_level = 1])
                 EXCEPT !.acq = <<w>>]
        ELSE [SetLock(S, k, L1) EXCEPT !.acq = <<>>]

\* The writer's release that clears writer without resetting the level
Lock_release_writer_keeping_level(S, k, c, fully, ord) ==
    LET L == S.active_locks[k]
        n == L.writer_reentrancy_level - 1
        L1 == IF n = 0 \/ fully
              THEN [L EXCEPT !.writer = None, !.writer_reentrancy_level = n]
              ELSE [L EXCEPT !.writer_reentrancy_level = n]
    IN  IF L1.waiting_writers # {}
        THEN LET w == PopWriter(L1, ord) IN
             [SetLock(S, k, [L1 EXCEPT !.writer = w, !.waiting_writers = @ \ {w},
                                       !.writer_reentrancy_level = 1])
                 EXCEPT !.acq = <<w>>]
        ELSE IF L1.waiting_readers # {}
        THEN [SetLock(S, k, [L1 EXCEPT
                  !.readers = [x \in (DOMAIN @) \cup L1.waiting_readers |->
                                  (IF x \in DOMAIN @ THEN @[x] ELSE 0)
                                  + (IF x \in L1.waiting_readers THEN 1 ELSE 0)],
                  !.waiting_readers = {}])
                 EXCEPT !.acq = InOrder(ord, L1.waiting_readers)]
        ELSE [SetLock(S, k, L1) EXCEPT !.acq = <<>>]

\* The branch `client_id == self.writer` of Lock.release
Lock_release_writer(S, k, c, fully, ord) ==
    LET L == S.active_locks[k]
        n == L.writer_reentrancy_level - 1
        L1 == IF n = 0 \/ fully
              THEN [L EXCEPT !.writer = None, !.writer_reentrancy_level = 0]
              ELSE [L EXCEPT !.writer_reentrancy_level = n]
    IN  IF L1.waiting_writers # {}
        THEN LET w == PopWriter(L1, ord) IN
             [SetLock(S, k, [L1 EXCEPT !.writer = w, !.waiting_writers = @ \ {w},
                                       !.writer_reentrancy_level = 1])
                 EXCEPT !.acq = <<w>>]
        ELSE IF L1.waiting_readers # {}
        THEN [SetLock(S, k, [L1 EXCEPT
                  !.readers = [x \in (DOMAIN @) \cup L1.waiting_readers |->
                                  (IF x \in DOMAIN @ THEN @[x] ELSE 0)
                                  + (IF x \in L1.waiting_readers THEN 1 ELSE 0)],
                  !.waiting_readers = {}])
                 EXCEPT !.acq = InOrder(ord, L1.waiting_readers)]
        ELSE [SetLock(S, k, L1) EXCEPT !.acq = <<>>]

\* A release that drops every level at once, whatever fully says
Lock_release_body_all_levels(S, k, c, fully, ord) ==
    LET L == S.active_locks[k] IN
    IF c \in DOMAIN L.readers THEN Lock_release_reader(S, k, c, TRUE, ord)
    ELSE IF c = L.writer THEN Lock_release_writer(S, k, c, TRUE, ord)
    ELSE Raise(S, "NotHeld")

\* The try block of Lock.release
Lock_release_body(S, k, c, fully, ord) ==
    LET L == S.active_locks[k] IN
    IF c \in DOMAIN L.readers THEN Lock_release_reader(S, k, c, fully, ord)
    ELSE IF c = L.writer THEN Lock_release_writer(S, k, c, fully, ord)
    ELSE Raise(S, "NotHeld")

\* Set of the members of a sequence
Range(q) == {q[i] : i \in 1..Len(q)}

\* Lock.release: the try block, then the finally clause
Lock_release(S, k, c, fully, ord) ==
    IF S.active_locks[k].invalid THEN Raise(S, "RuntimeError")
    ELSE LET S1 == Lock_check_cleanup(Lock_release_body(S, k, c, fully, ord), k) IN
         [S1 EXCEPT !.calls = Append(@, [op |-> "release", key |-> k, client_id |-> c,
                                         fully |-> fully, raised |-> S1.exc,
                                         branch |-> IF c \in DOMAIN S.active_locks[k].readers
                                                    THEN "reader" ELSE "writer",
                                         ret |-> IF S1.exc = "none" THEN Range(S1.acq)
                                                 ELSE {}])]

\* Lock.give_up
Lock_give_up(S, k, c) ==
    LET L == S.active_locks[k] IN
    IF L.invalid THEN Raise(S, "RuntimeError")
    ELSE LET S1 == Lock_check_cleanup(
                      IF c \in L.waiting_readers
                      THEN SetLock(S, k, [L EXCEPT !.waiting_readers = @ \ {c}])
                      ELSE IF c \in L.waiting_writers
                      THEN SetLock(S, k, [L EXCEPT !.waiting_writers = @ \ {c}])
                      ELSE S, k)
         IN  [S1 EXCEPT !.calls = Append(@, [op |-> "give_up", key |-> k, client_id |-> c])]

\* ---------------------------------------------------- Task and TaskQueue
\* Task.__init__. The model keeps no absolute clock: a task's due_at is held
\* relative to monotonic(), as Task.due_in() reports it, and Tick ages it.
Task(kind, k, c, due_in) ==
    [kind |-> kind, key |-> k, client_id |-> c, due_in |-> due_in, called |-> FALSE]

\* Task.__gt__: self.due_at < other.due_at
Task_gt(self, other) == self.due_in < other.due_in

\* `x < y` between Tasks: Task defines no __lt__, so Python evaluates the
\* reflected y.__gt__(x)
Task_lt(x, y) == Task_gt(y, x)

\* bisect.insort is insort_right: the 0-based index where x goes in list a
RECURSIVE bisect_right(_, _, _, _)
bisect_right(a, x, lo, hi) ==
    IF lo < hi
    THEN LET mid == (lo + hi) \div 2 IN
         IF Task_lt(x, a[mid + 1]) THEN bisect_right(a, x, lo, mid)
         ELSE bisect_right(a, x, mid + 1, hi)
    ELSE lo

\* An add that puts the task at the head of the list, whatever its due time
TaskQueue_add_first(q, task) == <<task>> \o q

\* TaskQueue.add
TaskQueue_add(q, task) ==
    LET lo == bisect_right(q, task, 0, Len(q)) IN
    SubSeq(q, 1, lo) \o <<task>> \o SubSeq(q, lo + 1, Len(q))

\* TaskQueue.next
TaskQueue_next(q) == q[Len(q)]

\* list.remove(x): the list without the first item equal to x
ListRemove(q, x) ==
    LET i == CHOOSE j \in 1..Len(q) : q[j] = x /\ \A h \in 1..(j - 1) : q[h] # x IN
    SubSeq(q, 1, i - 1) \o SubSeq(q, i + 1, Len(q))

\* TaskQueue.cancel: list.remove raises ValueError when the item is not in the list
TaskQueue_cancel(S, task) ==
    IF \E j \in 1..Len(S.tasks) : S.tasks[j] = task
    THEN [S EXCEPT !.tasks = ListRemove(@, task)]
    ELSE Raise(S, "ValueError")

\* ---------------------------------------------------------- LockRequest
\* None as the value of a task handle
NoTask == [kind |-> "None"]

\* LockRequest.__init__
NewRequest ==
    [routing_id |-> None, timeout |-> None, read_only |-> None, state |-> INITIAL,
     advise_retry_task |-> NoTask, give_up_task |-> NoTask, timeout_task |-> NoTask]

\* LockRequest.instance
LockRequest_instance(S, k, c) ==
    IF <<k, c>> \in DOMAIN S.active_requests THEN S ELSE SetReq(S, k, c, NewRequest)

Req(S, k, c) == S.active_requests[<<k, c>>]

\* LockRequest._cleanup: del of a missing key raises KeyError
LockRequest_cleanup(S, k, c) ==
    IF <<k, c>> \in DOMAIN S.active_requests
    THEN [S EXCEPT !.active_requests = DictDel(@, <<k, c>>)]
    ELSE Raise(S, "KeyError")

\* LockRequest.schedule_advise_retry
schedule_advise_retry(S, k, c) ==
    LET t == Task("advise_retry", k, c, MAX_RESPONSE_TIME) IN
    [SetReq(S, k, c, [Req(S, k, c) EXCEPT !.advise_retry_task = t])
        EXCEPT !.tasks = TaskQueue_add(@, t)]

\* LockRequest.schedule_give_up
schedule_give_up(S, k, c) ==
    LET t == Task("give_up", k, c, MAX_ABSENT_TIME) IN
    [SetReq(S, k, c, [Req(S, k, c) EXCEPT !.give_up_task = t])
        EXCEPT !.tasks = TaskQueue_add(@, t)]

\* LockRequest.schedule_timeout_release
schedule_timeout_release(S, k, c, timeout) ==
    LET t == Task("timeout_release", k, c, timeout) IN
    [SetReq(S, k, c, [Req(S, k, c) EXCEPT !.timeout_task = t])
        EXCEPT !.tasks = TaskQueue_add(@, t)]

\* A request's task attribute is held as the Task it refers to while that Task
\* is in the queue, and as NoTask once it has left the queue (fired or
\* cancelled) as well as before the first one is scheduled: the code uses the
\* attribute of such a task only to cancel it, and list.remove raises
\* ValueError for both.
Forget(S, k, c, task) ==
    IF <<k, c>> \in DOMAIN S.active_requests
    THEN LET Gone(h) == IF h = task THEN NoTask ELSE h IN
         SetReq(S, k, c, [Req(S, k, c) EXCEPT !.advise_retry_task = Gone(@),
                                              !.give_up_task = Gone(@),
                                              !.timeout_task = Gone(@)])
    ELSE S

\* LockRequest.cancel_advise_retry
cancel_advise_retry(S, k, c) ==
    Forget(TaskQueue_cancel(S, Req(S, k, c).advise_retry_task), k, c,
           Req(S, k, c).advise_retry_task)

\* LockRequest.cancel_give_up
cancel_give_up(S, k, c) ==
    Forget(TaskQueue_cancel(S, Req(S, k, c).give_up_task), k, c, Req(S, k, c).give_up_task)

\* LockRequest.cancel_timeout_release
cancel_timeout_release(S, k, c) ==
    Forget(TaskQueue_cancel(S, Req(S, k, c).timeout_task), k, c, Req(S, k, c).timeout_task)

SetState(S, k, c, st) == SetReq(S, k, c, [Req(S, k, c) EXCEPT !.state = st])

\* on_triggered_acquisition that gives an absent client the lease it asked for
on_triggered_acquisition_own_lease(S, k, c) ==
    LET R == Req(S, k, c) IN
    IF R.state = PRESENT_WAITING
    THEN LET S1 == Send(S, R.routing_id, "ok")
             S2 == schedule_timeout_release(S1, k, c, R.timeout)
             S3 == cancel_advise_retry(S2, k, c)
         IN  IF Ok(S3) THEN SetState(S3, k, c, HELD) ELSE S3
    ELSE IF R.state = ABSENT_WAITING
    THEN LET S1 == cancel_give_up(S, k, c)
             S2 == schedule_timeout_release(S1, k, c, R.timeout)
         IN  IF Ok(S1) THEN SetState(S2, k, c, ABSENT_HELD) ELSE S1
    ELSE Raise(S, "ValueError")

\* on_triggered_acquisition that leaves the timer of the state it leaves in the
\* queue
on_triggered_acquisition_no_cancel(S, k, c) ==
    LET R == Req(S, k, c) IN
    IF R.state = PRESENT_WAITING
    THEN SetState(schedule_timeout_release(Send(S, R.routing_id, "ok"), k, c, R.timeout),
                  k, c, HELD)
    ELSE IF R.state = ABSENT_WAITING
    THEN SetState(schedule_timeout_release(S, k, c, MAX_ABSENT_TIME), k, c, ABSENT_HELD)
    ELSE Raise(S, "ValueError")

\* LockRequest.on_triggered_acquisition
on_triggered_acquisition(S, k, c) ==
    LET R == Req(S, k, c) IN
    IF R.state = PRESENT_WAITING
    THEN LET S1 == Send(S, R.routing_id, "ok")
             S2 == schedule_timeout_release(S1, k, c, R.timeout)
             S3 == cancel_advise_retry(S2, k, c)
         IN  IF Ok(S3) THEN SetState(S3, k, c, HELD) ELSE S3
    ELSE IF R.state = ABSENT_WAITING
    THEN LET S1 == cancel_give_up(S, k, c)
             S2 == schedule_timeout_release(S1, k, c, MAX_ABSENT_TIME)
         IN  IF Ok(S1) THEN SetState(S2, k, c, ABSENT_HELD) ELSE S1
    ELSE Raise(S, "ValueError")

\* _initial_acquisition that gives a lease of MAX_ABSENT_TIME to a client that
\* asks for a lease of 0 seconds
initial_acquisition_min_lease(S, k, c, routing_id, timeout, read_only) ==
    LET S1 == SetReq(S, k, c, [Req(S, k, c) EXCEPT !.routing_id = routing_id,
                                                   !.timeout = timeout,
                                                   !.read_only = read_only])
        S2 == Lock_acquire(Lock_instance(S1, k), k, c, read_only)
    IN  IF ~Ok(S2) THEN S2
        ELSE IF S2.ret
        THEN SetState(schedule_timeout_release(Send(S2, routing_id, "ok"), k, c,
                                               IF timeout = 0 THEN MAX_ABSENT_TIME ELSE timeout),
                      k, c, HELD)
        ELSE SetState(schedule_advise_retry(S2, k, c), k, c, PRESENT_WAITING)

\* LockRequest._initial_acquisition
initial_acquisition(S, k, c, routing_id, timeout, read_only) ==
    LET S1 == SetReq(S, k, c, [Req(S, k, c) EXCEPT !.routing_id = routing_id,
                                                   !.timeout = timeout,
                                                   !.read_only = read_only])
        S2 == Lock_acquire(Lock_instance(S1, k), k, c, read_only)
    IN  IF ~Ok(S2) THEN S2
        ELSE IF S2.ret
        THEN SetState(schedule_timeout_release(Send(S2, routing_id, "ok"), k, c, timeout),
                      k, c, HELD)
        ELSE SetState(schedule_advise_retry(S2, k, c), k, c, PRESENT_WAITING)

\* A loop that tells only the first acquirer
TriggerAll_first(S, k, acquirers) ==
    IF acquirers = <<>> \/ ~Ok(S) THEN S
    ELSE on_triggered_acquisition(LockRequest_instance(S, k, Head(acquirers)),
                                  k, Head(acquirers))

\* The loop `for client_id in acquirers` of LockRequest.release
RECURSIVE TriggerAll(_, _, _)
TriggerAll(S, k, acquirers) ==
    IF acquirers = <<>> \/ ~Ok(S) THEN S
    ELSE TriggerAll(on_triggered_acquisition(LockRequest_instance(S, k, Head(acquirers)),
                                             k, Head(acquirers)),
                    k, Tail(acquirers))

\* LockRequest.release
LockRequest_release(S, k, c, fully, ord) ==
    LET S1 == Lock_release(Lock_instance(S, k), k, c, fully, ord)
        S2 == TriggerAll(S1, k, S1.acq)
    IN  IF ~Ok(S1) THEN S1
        ELSE IF ~Ok(S2) THEN S2
        ELSE LockRequest_cleanup(S2, k, c)

\* LockRequest.give_up that leaves the request in the table
LockRequest_give_up_keeping(S, k, c, cleanup) ==
    Lock_give_up(Lock_instance(S, k), k, c)

\* LockRequest.give_up
LockRequest_give_up(S, k, c, cleanup) ==
    LET S1 == Lock_give_up(Lock_instance(S, k), k, c) IN
    IF Ok(S1) /\ cleanup THEN LockRequest_cleanup(S1, k, c) ELSE S1

\* The HELD branch that resets the lease to the timeout of every reentry
acquire_request_held_resetting(S, k, c, routing_id, timeout, read_only) ==
    LET S1 == Lock_acquire(Lock_instance(S, k), k, c, read_only) IN
    IF S1.exc = "InvalidReentry"
    THEN Send([S1 EXCEPT !.exc = "none"], routing_id, ERR_INVALID_REENTRY)
    ELSE IF ~Ok(S1) THEN S1
    ELSE IF ~S1.ret THEN Raise(S1, "AssertionError")
    ELSE LET S2 == Send(S1, routing_id, "ok")
             S3 == cancel_timeout_release(S2, k, c) IN
         IF Ok(S3) THEN schedule_timeout_release(S3, k, c, timeout) ELSE S3

\* The HELD branch that records the frame's routing id and timeout before it
\* tries the lock
acquire_request_held_recording(S, k, c, routing_id, timeout, read_only) ==
    LET S0 == SetReq(S, k, c, [Req(S, k, c) EXCEPT !.timeout = timeout,
                                                   !.routing_id = routing_id])
        S1 == Lock_acquire(Lock_instance(S0, k), k, c, read_only) IN
    IF S1.exc = "InvalidReentry"
    THEN Send([S1 EXCEPT !.exc = "none"], routing_id, ERR_INVALID_REENTRY)
    ELSE IF ~Ok(S1) THEN S1
    ELSE IF ~S1.ret THEN Raise(S1, "AssertionError")
    ELSE LET S2 == Send(S1, routing_id, "ok") IN
         IF timeout > Req(S2, k, c).timeout_task.due_in
         THEN LET S3 == cancel_timeout_release(S2, k, c) IN
              IF Ok(S3) THEN schedule_timeout_release(S3, k, c, timeout) ELSE S3
         ELSE S2

\* The HELD branch that starts the longer lease without cancelling the one
\* that runs
acquire_request_held_stacking(S, k, c, routing_id, timeout, read_only) ==
    LET S1 == Lock_acquire(Lock_instance(S, k), k, c, read_only) IN
    IF S1.exc = "InvalidReentry"
    THEN Send([S1 EXCEPT !.exc = "none"], routing_id, ERR_INVALID_REENTRY)
    ELSE IF ~Ok(S1) THEN S1
    ELSE IF ~S1.ret THEN Raise(S1, "AssertionError")
    ELSE LET S2 == Send(S1, routing_id, "ok") IN
         IF timeout > Req(S2, k, c).timeout_task.due_in
         THEN schedule_timeout_release(S2, k, c, timeout)
         ELSE S2

\* The branch `self.state is rs.HELD` of LockRequest.acquire_request
acquire_request_held(S, k, c, routing_id, timeout, read_only) ==
    LET S1 == Lock_acquire(Lock_instance(S, k), k, c, read_only) IN
    IF S1.exc = "InvalidReentry"
    THEN Send([S1 EXCEPT !.exc = "none"], routing_id, ERR_INVALID_REENTRY)
    ELSE IF ~Ok(S1) THEN S1
    ELSE IF ~S1.ret THEN Raise(S1, "AssertionError")
    ELSE LET S2 == Send(S1, routing_id, "ok") IN
         IF timeout > Req(S2, k, c).timeout_task.due_in
         THEN LET S3 == cancel_timeout_release(S2, k, c) IN
              IF Ok(S3) THEN schedule_timeout_release(S3, k, c, timeout) ELSE S3
         ELSE S2

\* The ABSENT_WAITING branch that keeps the routing id of the frame before
acquire_request_absent_waiting_stale(S, k, c, routing_id, timeout, read_only) ==
    LET S1 == cancel_give_up(S, k, c) IN
    IF ~Ok(S1) THEN S1
    ELSE IF read_only # Req(S1, k, c).read_only
    THEN LET S2 == LockRequest_give_up(S1, k, c, FALSE) IN
         IF Ok(S2) THEN initial_acquisition(S2, k, c, routing_id, timeout, read_only)
         ELSE S2
    ELSE SetState(
            schedule_advise_retry(
                SetReq(S1, k, c, [Req(S1, k, c) EXCEPT !.timeout = timeout]),
                k, c),
            k, c, PRESENT_WAITING)

\* The ABSENT_WAITING branch that starts again in the new mode without giving
\* up the place in the old waiting set
acquire_request_absent_waiting_no_give_up(S, k, c, routing_id, timeout, read_only) ==
    LET S1 == cancel_give_up(S, k, c) IN
    IF ~Ok(S1) THEN S1
    ELSE IF read_only # Req(S1, k, c).read_only
    THEN initial_acquisition(S1, k, c, routing_id, timeout, read_only)
    ELSE SetState(
            schedule_advise_retry(
                SetReq(S1, k, c, [Req(S1, k, c) EXCEPT !.timeout = timeout,
                                                       !.routing_id = routing_id]),
                k, c),
            k, c, PRESENT_WAITING)

\* The branch `self.state is rs.ABSENT_WAITING` of LockRequest.acquire_request
acquire_request_absent_waiting(S, k, c, routing_id, timeout, read_only) ==
    LET S1 == cancel_give_up(S, k, c) IN
    IF ~Ok(S1) THEN S1
    ELSE IF read_only # Req(S1, k, c).read_only
    THEN LET S2 == LockRequest_give_up(S1, k, c, FALSE) IN
         IF Ok(S2) THEN initial_acquisition(S2, k, c, routing_id, timeout, read_only)
         ELSE S2
    ELSE SetState(
            schedule_advise_retry(
                SetReq(S1, k, c, [Req(S1, k, c) EXCEPT !.timeout = timeout,
                                                       !.routing_id = routing_id]),
                k, c),
            k, c, PRESENT_WAITING)

\* LockRequest.acquire_request with an ABSENT_HELD branch that leaves the
\* absent lease in the queue
LockRequest_acquire_request_two_leases(S, k, c, routing_id, timeout, read_only) ==
    LET st == Req(S, k, c).state IN
    IF st = INITIAL THEN initial_acquisition(S, k, c, routing_id, timeout, read_only)
    ELSE IF st = HELD THEN acquire_request_held(S, k, c, routing_id, timeout, read_only)
    ELSE IF st = ABSENT_HELD
    THEN SetState(schedule_timeout_release(Send(S, routing_id, "ok"), k, c, timeout),
                  k, c, HELD)
    ELSE IF st = ABSENT_WAITING
    THEN acquire_request_absent_waiting(S, k, c, routing_id, timeout, read_only)
    ELSE IF st = PRESENT_WAITING THEN Send(S, routing_id, ERR_CONCURRENT)
    ELSE Raise(S, "ValueError")

\* LockRequest.acquire_request with a PRESENT_WAITING branch that adopts the
\* routing id of the rejected frame
LockRequest_acquire_request_adopting(S, k, c, routing_id, timeout, read_only) ==
    LET st == Req(S, k, c).state IN
    IF st = INITIAL THEN initial_acquisition(S, k, c, routing_id, timeout, read_only)
    ELSE IF st = HELD THEN acquire_request_held(S, k, c, routing_id, timeout, read_only)
    ELSE IF st = ABSENT_HELD
    THEN LET S1 == cancel_timeout_release(Send(S, routing_id, "ok"), k, c) IN
         IF Ok(S1) THEN SetState(schedule_timeout_release(S1, k, c, timeout), k, c, HELD)
         ELSE S1
    ELSE IF st = ABSENT_WAITING
    THEN acquire_request_absent_waiting(S, k, c, routing_id, timeout, read_only)
    ELSE IF st = PRESENT_WAITING
    THEN Send(SetReq(S, k, c, [Req(S, k, c) EXCEPT !.routing_id = routing_id]),
              routing_id, ERR_CONCURRENT)
    ELSE Raise(S, "ValueError")

\* LockRequest.acquire_request
LockRequest_acquire_request(S, k, c, routing_id, timeout, read_only) ==
    LET st == Req(S, k, c).state IN
    IF st = INITIAL THEN initial_acquisition(S, k, c, routing_id, timeout, read_only)
    ELSE IF st = HELD THEN acquire_request_held(S, k, c, routing_id, timeout, read_only)
    ELSE IF st = ABSENT_HELD
    THEN LET S1 == cancel_timeout_release(Send(S, routing_id, "ok"), k, c) IN
         IF Ok(S1) THEN SetState(schedule_timeout_release(S1, k, c, timeout), k, c, HELD)
         ELSE S1
    ELSE IF st = ABSENT_WAITING
    THEN acquire_request_absent_waiting(S, k, c, routing_id, timeout, read_only)
    ELSE IF st = PRESENT_WAITING THEN Send(S, routing_id, ERR_CONCURRENT)
    ELSE Raise(S, "ValueError")

\* The branches HELD and ABSENT_HELD of LockRequest.release_request: the reply,
\* self.release(), then self.cancel_timeout_release() on the request object,
\* which self.release() has removed from the table
release_request_held(S, k, c, routing_id, message, ord) ==
    LET S1 == LockRequest_release(Send(S, routing_id, message), k, c, FALSE, ord) IN
    IF Ok(S1) THEN TaskQueue_cancel(S1, Req(S, k, c).timeout_task) ELSE S1

\* LockRequest.release_request
LockRequest_release_request(S, k, c, routing_id, ord) ==
    LET st == Req(S, k, c).state IN
    IF st = HELD THEN release_request_held(S, k, c, routing_id, "ok", ord)
    ELSE IF st = ABSENT_HELD THEN release_request_held(S, k, c, routing_id, ERR_NOT_HELD, ord)
    ELSE IF st = PRESENT_WAITING THEN Send(S, routing_id, ERR_CONCURRENT)
    ELSE IF st \in {INITIAL, ABSENT_WAITING} THEN Send(S, routing_id, ERR_NOT_HELD)
    ELSE Raise(S, "ValueError")

\* LockRequest.advise_retry
LockRequest_advise_retry(S, k, c) ==
    SetState(schedule_give_up(Send(S, Req(S, k, c).routing_id, "retry"), k, c),
             k, c, ABSENT_WAITING)

\* ------------------------------------------------------- ZMQLockServer
\* The server's objects as a handler finds them
Begin ==
    [active_locks |-> active_locks, active_requests |-> active_requests, tasks |-> tasks,
     sent |-> <<>>, calls |-> <<>>, exc |-> "none", ret |-> FALSE, acq |-> <<>>]

\* The server's objects as a handler leaves them; an exception that nothing
\* caught ends run()
End(result) ==
    \E S \in {result} :
        /\ active_locks' = S.active_locks
        /\ active_requests' = S.active_requests
        /\ tasks' = S.tasks
        /\ sent' = S.sent
        /\ calls' = S.calls
        /\ crashed' = S.exc
        /\ UNCHANGED stopping

\* The reentry level at which client c holds lock k (0: not a holder)
Level(k, c) ==
    IF k \notin DOMAIN active_locks THEN 0
    ELSE LET L == active_locks[k] IN
         IF c \in DOMAIN L.readers THEN L.readers[c]
         ELSE IF L.writer = c THEN L.writer_reentrancy_level
         ELSE 0

\* ZMQLockServer.acquire_request on a well-formed frame
ZMQLockServer_acquire_request(S, routing_id, k, c, timeout, read_only) ==
    LockRequest_acquire_request(LockRequest_instance(S, k, c), k, c, routing_id, timeout,
                                read_only)

\* ZMQLockServer.release_request on a well-formed frame
ZMQLockServer_release_request(S, routing_id, k, c, ord) ==
    LockRequest_release_request(LockRequest_instance(S, k, c), k, c, routing_id, ord)

\* self.tasks.pop() in run()
TaskQueue_pop(S) ==
    LET task == S.tasks[Len(S.tasks)] IN
    Forget([S EXCEPT !.tasks = SubSeq(@, 1, Len(@) - 1)], task.key, task.client_id, task)

\* Task.__call__
Task_call(S, task, ord) ==
    IF task.called THEN Raise(S, "RuntimeError")
    ELSE IF task.kind = "advise_retry" THEN LockRequest_advise_retry(S, task.key, task.client_id)
    ELSE IF task.kind = "give_up" THEN LockRequest_give_up(S, task.key, task.client_id, TRUE)
    ELSE LockRequest_release(S, task.key, task.client_id, TRUE, ord)

\* run(): poll() reports a frame; it is [routing_id, b'', b'hello']
HelloFrame(r) ==
    /\ crashed = "none"
    /\ End(Send(Begin, r, "hello"))

\* run(): poll() reports a frame; it is a well-formed acquire
AcquireFrame(r, k, c, t, ro) ==
    /\ crashed = "none"
    /\ Level(k, c) < MaxReentry
    /\ End(ZMQLockServer_acquire_request(Begin, r, k, c, t, ro))

\* run(): poll() reports a frame; it is a well-formed release
ReleaseFrame(r, k, c, ord) ==
    /\ crashed = "none"
    /\ End(ZMQLockServer_release_request(Begin, r, k, c, ord))

\* run(): poll() reports no frame within the time to the next task: the task is due
FireTask(ord) ==
    /\ crashed = "none"
    /\ tasks # <<>>
    /\ TaskQueue_next(tasks).due_in <= 0
    /\ End(Task_call(TaskQueue_pop(Begin), TaskQueue_next(tasks), ord))

\* A Task object one second later
Age(task) == IF task = NoTask THEN NoTask ELSE [task EXCEPT !.due_in = @ - 1]

\* monotonic() advances by one second
Tick ==
    /\ crashed = "none"
    /\ tasks # <<>>
    /\ TaskQueue_next(tasks).due_in > -MaxOverdue
    /\ tasks' = [i \in 1..Len(tasks) |-> Age(tasks[i])]
    /\ active_requests' =
          [s \in DOMAIN active_requests |->
              [active_requests[s] EXCEPT !.advise_retry_task = Age(@),
                                         !.give_up_task = Age(@),
                                         !.timeout_task = Age(@)]]
    /\ UNCHANGED <<active_locks, sent, calls, crashed, stopping>>

Init ==
    /\ active_locks = EmptyDict
    /\ active_requests = EmptyDict
    /\ tasks = <<>>
    /\ sent = <<>>
    /\ calls = <<>>
    /\ crashed = "none"
    /\ stopping = FALSE

Next ==
    \/ \E c \in Clients : \E r \in RoutingIds(c) : HelloFrame(r)
    \/ \E k \in Keys, c \in Clients :
          \E r \in RoutingIds(c), t \in Timeouts(c), ro \in Modes(c) :
             AcquireFrame(r, k, c, t, ro)
    \/ \E k \in Keys, c \in Clients :
          \E r \in RoutingIds(c), ord \in Orders(active_locks, k) : ReleaseFrame(r, k, c, ord)
    \/ \E ord \in IF tasks = <<>> THEN {} ELSE Orders(active_locks, TaskQueue_next(tasks).key) :
          FireTask(ord)
    \/ Tick

Spec == Init /\ [][Next]_vars

\* ------------------------------------------------ the server being stopped
\* run(): poll() reports a frame; it is [routing_id, b'', b'stop']. The
\* branch `command == b'stop' and self.stopping` replies ok and breaks; a stop
\* frame while the flag is false falls to the else branch.
StopFrame(r) ==
    /\ crashed = "none"
    /\ sent' = <<<<r, IF stopping THEN "ok" ELSE ERR_INVALID_COMMAND>>>>
    /\ calls' = <<>>
    /\ crashed' = IF stopping THEN "break" ELSE "none"
    /\ UNCHANGED <<active_locks, active_requests, tasks, stopping>>

\* ZMQLockServer.stop, called in another thread of the process, up to its
\* sock.send(b'stop'): self.running is true from the start of run() until run()
\* has left by its break (an uncaught exception never reaches line 464)
StopCall ==
    /\ crashed # "break"
    /\ ~stopping
    /\ stopping' = TRUE
    /\ UNCHANGED <<active_locks, active_requests, tasks, sent, calls, crashed>>

\* The routing id of the REQ socket that stop() opens
StopSocket == "r0"

\* ZMQLockServer.stop from `assert sock.recv() == b'ok'`, which waits for the
\* reply to its own socket, to its end
StopReturn ==
    /\ crashed = "break"
    /\ stopping
    /\ sent = <<<<StopSocket, "ok">>>>
    /\ stopping' = FALSE
    /\ UNCHANGED <<active_locks, active_requests, tasks, sent, calls, crashed>>

\* The peers while the server is being stopped: c1 and c2, each from one
\* routing id, send acquire and release frames, and any peer may send stop
StopPeers == {"c1", "c2"}

\* The senders of stop frames: two remote peers, and the socket of stop() once
\* stop() has sent its frame
StopSenders == {StopSocket, "r1", "r2"}

StopNext ==
    \/ \E r \in IF stopping THEN StopSenders ELSE StopSenders \ {StopSocket} : StopFrame(r)
    \/ StopCall
    \/ StopReturn
    \/ \E k \in Keys, c \in StopPeers :
          \E t \in Timeouts(c), ro \in Modes(c) : AcquireFrame("r1", k, c, t, ro)
    \/ \E k \in Keys, c \in StopPeers :
          \E ord \in Orders(active_locks, k) : ReleaseFrame("r1", k, c, ord)
    \/ \E ord \in IF tasks = <<>> THEN {} ELSE Orders(active_locks, TaskQueue_next(tasks).key) :
          FireTask(ord)
    \/ Tick

StopSpec == Init /\ [][StopNext]_vars

\* ------------------------------------------------ the Lock class alone
\* A caller of the methods of Lock, with no LockRequest and no task: the lock
\* table and the log of the call are what a call leaves; an exception goes to
\* the caller and is in the log.
LockEnd(result) ==
    \E S \in {result} :
        /\ active_locks' = S.active_locks
        /\ calls' = S.calls
        /\ UNCHANGED <<active_requests, tasks, sent, crashed, stopping>>

\* Lock.instance(k).acquire(c, read_only)
LockAcquire(k, c, read_only) ==
    /\ Level(k, c) < MaxReentry
    /\ LockEnd(Lock_acquire(Lock_instance(Begin, k), k, c, read_only))

\* Lock.instance(k).release(c, fully)
LockRelease(k, c, fully, ord) ==
    LockEnd(Lock_release(Lock_instance(Begin, k), k, c, fully, ord))

\* Lock.instance(k).give_up(c)
LockGiveUp(k, c) ==
    LockEnd(Lock_give_up(Lock_instance(Begin, k), k, c))

LockNext ==
    \/ \E k \in Keys, c \in Clients, read_only \in BOOLEAN : LockAcquire(k, c, read_only)
    \/ \E k \in Keys, c \in Clients, fully \in BOOLEAN :
          \E ord \in Orders(active_locks, k) : LockRelease(k, c, fully, ord)
    \/ \E k \in Keys, c \in Clients : LockGiveUp(k, c)

LockSpec == Init /\ [][LockNext]_vars

\* ------------------------------------------------ the TaskQueue class alone
\* A caller of TaskQueue.add, TaskQueue.cancel and of pop and Task.__call__ as
\* run() uses them, with no LockRequest behind the tasks: the queue and the
\* log of the call are what a call leaves; an exception goes to the caller
\* and is in the log.
MaxQueue == 2

\* The Task objects of the caller, each known by its kind, client and delay
\* (Task defines no __eq__, so list.remove finds a task by identity): at most
\* one object of a kind, client and delay is in the queue at a time, and a
\* task that is not in the queue was fired, or cancelled, or never added
QueueTasks ==
    {Task(kind, k, c, d) : kind \in {"advise_retry", "give_up", "timeout_release"},
                           k \in Keys, c \in Clients, d \in 0..MaxTimeout}

\* tasks.add(task), for a new Task object
QueueAdd(task) ==
    /\ Len(tasks) < MaxQueue
    /\ task \notin Range(tasks)
    /\ tasks' = TaskQueue_add(tasks, task)
    /\ calls' = <<[op |-> "add", task |-> task, raised |-> "none"]>>
    /\ UNCHANGED <<active_locks, active_requests, sent, crashed, stopping>>

\* tasks.cancel(task), for any task the caller has: in the queue, or fired, or
\* cancelled before, or never added
QueueCancel(task) ==
    /\ tasks' = TaskQueue_cancel(Begin, task).tasks
    /\ calls' = <<[op |-> "cancel", task |-> task, raised |-> TaskQueue_cancel(Begin, task).exc]>>
    /\ UNCHANGED <<active_locks, active_requests, sent, crashed, stopping>>

\* task = tasks.pop(); task(): the task that is due soonest leaves the queue
\* and is called
QueueFire ==
    /\ tasks # <<>>
    /\ tasks' = SubSeq(tasks, 1, Len(tasks) - 1)
    /\ calls' = <<[op |-> "call", task |-> TaskQueue_next(tasks), raised |-> "none"]>>
    /\ UNCHANGED <<active_locks, active_requests, sent, crashed, stopping>>

QueueNext ==
    \/ \E task \in QueueTasks : QueueAdd(task)
    \/ \E task \in QueueTasks : QueueCancel(task)
    \/ QueueFire

QueueSpec == Init /\ [][QueueNext]_vars

\* ------------------------------------------------------------ properties
Slots == DOMAIN active_requests

\* The attribute of request R that refers to tasks of this kind
Handle(R, kind) ==
    IF kind = "advise_retry" THEN R.advise_retry_task
    ELSE IF kind = "give_up" THEN R.give_up_task
    ELSE R.timeout_task

Kinds == {"advise_retry", "give_up", "timeout_release"}

\* The tasks of one kind that are pending for slot s
Pending(s, kind) ==
    {i \in 1..Len(tasks) : tasks[i].kind = kind /\ <<tasks[i].key, tasks[i].client_id>> = s}

\* While run() is alive every task in the queue is the one its request's attribute
\* refers to, and every attribute that refers to a task refers to one in the
\* queue: a task never outlives its request object.
TasksOwned ==
    crashed = "none" =>
        /\ \A i \in 1..Len(tasks) :
              /\ <<tasks[i].key, tasks[i].client_id>> \in Slots
              /\ Handle(active_requests[<<tasks[i].key, tasks[i].client_id>>], tasks[i].kind)
                    = tasks[i]
              /\ ~tasks[i].called
        /\ \A s \in Slots, kind \in Kinds :
              Handle(active_requests[s], kind) # NoTask => Pending(s, kind) # {}

\* The state of the request of slot <<k, c>>, "gone" when the table has none
StateOf(k, c) == IF <<k, c>> \in Slots THEN active_requests[<<k, c>>].state ELSE "gone"

\* Client c holds lock k
Holder(k, c) == Level(k, c) > 0

LockKeys == DOMAIN active_locks

\* C1: after every handled frame or fired task, for every lock in the active
\* table, a lock whose writer is set has no readers.
C1_WriterExcludesReaders ==
    crashed = "none" =>
        \A k \in LockKeys :
            active_locks[k].writer # None => DOMAIN active_locks[k].readers = {}

\* C2: a release frame for a HELD slot whose client holds the lock at reentry
\* level 2 or more is answered ok, lowers the level by one and leaves the
\* client a holder with a tracked HELD request and a pending lease task.
C2_ReleaseKeepsHold ==
    [][\A k \in Keys, c \in Clients :
          \A r \in RoutingIds(c), ord \in Perms :
             (StateOf(k, c) = HELD /\ Level(k, c) >= 2 /\ ReleaseFrame(r, k, c, ord))
             => /\ sent' = <<<<r, "ok">>>>
                /\ Level(k, c)' = Level(k, c) - 1
                /\ StateOf(k, c)' = HELD
                /\ Pending(<<k, c>>, "timeout_release")' # {}]_vars

\* C3: no client holds a lock without a pending timeout_release task for its
\* slot (so that every hold is reclaimed when due tasks are fired).
C3_HoldHasLease ==
    crashed = "none" =>
        \A k \in Keys, c \in Clients :
            Holder(k, c) => Pending(<<k, c>>, "timeout_release") # {}

\* C4: no sequence of well-formed hello, acquire and release frames and timer
\* firings makes a handler raise an exception that nothing catches.
C4_NoCrash == crashed = "none"

\* The number of the four membership sets of lock L that hold client c
Memberships(L, c) ==
    (IF c \in DOMAIN L.readers THEN 1 ELSE 0) + (IF L.writer = c THEN 1 ELSE 0)
    + (IF c \in L.waiting_readers THEN 1 ELSE 0) + (IF c \in L.waiting_writers THEN 1 ELSE 0)

\* C5: after every operation, every client is in at most one of readers,
\* writer, waiting_readers and waiting_writers of every lock.
C5_MembershipDisjoint ==
    crashed = "none" =>
        \A k \in LockKeys, c \in Clients : Memberships(active_locks[k], c) <= 1

\* What Lock.instance returns for key k from the table locks
LockOf(locks, k) == IF k \in DOMAIN locks THEN locks[k] ELSE NewLock

\* The lock of key k as LockRequest.acquire_request finds it when it calls
\* Lock.acquire for client c: an ABSENT_WAITING request that changes mode has
\* given up first
LockAtAcquire(k, c) ==
    IF StateOf(k, c) = ABSENT_WAITING
    THEN LockOf(Lock_give_up(Lock_instance(Begin, k), k, c).active_locks, k)
    ELSE LockOf(active_locks, k)

\* The handler of the step called Lock.acquire for c on key k
AcquireCalled(k, c) ==
    \E i \in 1..Len(calls') :
        calls'[i].op = "acquire" /\ calls'[i].key = k /\ calls'[i].client_id = c

\* C6: when Lock.acquire(c, read_only=True) is called while no writer holds
\* the lock, a writer is waiting and c is not a reader, it returns False, adds
\* c to waiting_readers and leaves readers as they are.
C6_ReaderWaitsForWaitingWriter ==
    [][\A k \in Keys, c \in Clients :
          \A r \in RoutingIds(c), t \in Timeouts(c) :
             (/\ AcquireCalled(k, c)
              /\ LockAtAcquire(k, c).writer = None
              /\ LockAtAcquire(k, c).waiting_writers # {}
              /\ c \notin DOMAIN LockAtAcquire(k, c).readers
              /\ AcquireFrame(r, k, c, t, TRUE))
             => /\ calls'[Len(calls')] =
                      [op |-> "acquire", key |-> k, client_id |-> c, read_only |-> TRUE,
                       raised |-> "none", ret |-> FALSE]
                /\ LockOf(active_locks', k) =
                      [LockAtAcquire(k, c) EXCEPT !.waiting_readers = @ \cup {c}]
                /\ c \in LockOf(active_locks', k).waiting_readers
                /\ <<r, "ok">> \notin Range(sent')]_vars

\* A read acquire of a client that is not a reader has just been refused
\* because a writer waits while no writer holds the lock.
C6_Witness ==
    \E k \in LockKeys, c \in Clients :
        /\ calls = <<[op |-> "acquire", key |-> k, client_id |-> c, read_only |-> TRUE,
                      raised |-> "none", ret |-> FALSE]>>
        /\ active_locks[k].writer = None
        /\ active_locks[k].waiting_writers # {}
        /\ c \in active_locks[k].waiting_readers
        /\ c \notin DOMAIN active_locks[k].readers
        /\ StateOf(k, c) = PRESENT_WAITING

\* The step is a handler that calls Lock.release(c, fully) on key k
ReleaseStep(k, c, fully) ==
    \/ /\ ~fully
       /\ StateOf(k, c) \in {HELD, ABSENT_HELD}
       /\ \E r \in RoutingIds(c), ord \in Orders(active_locks, k) :
             ReleaseFrame(r, k, c, ord)
    \/ /\ fully
       /\ tasks # <<>>
       /\ TaskQueue_next(tasks).kind = "timeout_release"
       /\ TaskQueue_next(tasks).key = k
       /\ TaskQueue_next(tasks).client_id = c
       /\ \E ord \in Orders(active_locks, k) : FireTask(ord)

\* C7: when the release of the current writer clears writer while writers and
\* readers wait, exactly one waiting writer becomes writer at level 1, it is
\* the only client returned, and the waiting readers stay waiting.
C7_WaitingWriterFirst ==
    [][\A k \in LockKeys, c \in Clients, fully \in BOOLEAN :
          (/\ active_locks[k].writer = c
           /\ c \notin DOMAIN active_locks[k].readers
           /\ fully \/ active_locks[k].writer_reentrancy_level = 1
           /\ active_locks[k].waiting_writers # {}
           /\ active_locks[k].waiting_readers # {}
           /\ ReleaseStep(k, c, fully))
          => \E w \in active_locks[k].waiting_writers :
                /\ LockOf(active_locks', k) =
                      [active_locks[k] EXCEPT !.writer = w, !.writer_reentrancy_level = 1,
                                              !.waiting_writers = @ \ {w}]
                /\ calls' = <<[op |-> "release", key |-> k, client_id |-> c,
                               fully |-> fully, raised |-> "none", branch |-> "writer",
                               ret |-> {w}]>>
                /\ \A x \in active_locks[k].waiting_readers \ {w} :
                      StateOf(k, x)' = StateOf(k, x)]_vars

\* A writer has just released, one waiting writer has the lock and the readers still wait.
C7_Witness ==
    \E k \in LockKeys, c \in Clients, w \in Clients :
        /\ Len(calls) = 1
        /\ calls[1].op = "release" /\ calls[1].client_id = c /\ calls[1].branch = "writer"
        /\ calls[1].ret = {w} /\ w # c
        /\ active_locks[k].writer = w
        /\ active_locks[k].writer_reentrancy_level = 1
        /\ active_locks[k].waiting_readers # {}
        /\ Level(k, c) = 0
        /\ StateOf(k, w) = HELD
        /\ crashed = "none"

\* C8: a read acquire by a client whose request is HELD as a reader, sent while
\* a writer waits, is answered ok at once, raises the client's reentry count
\* by one, does not queue the client and leaves the request HELD.
C8_ReaderReentryUnderWaitingWriter ==
    [][\A k \in LockKeys, c \in Clients :
          \A r \in RoutingIds(c), t \in Timeouts(c) :
             (/\ StateOf(k, c) = HELD
              /\ c \in DOMAIN active_locks[k].readers
              /\ active_locks[k].waiting_writers # {}
              /\ AcquireFrame(r, k, c, t, TRUE))
             => /\ sent' = <<<<r, "ok">>>>
                /\ crashed' = "none"
                /\ LockOf(active_locks', k).readers =
                      DictSet(active_locks[k].readers, c, active_locks[k].readers[c] + 1)
                /\ c \notin LockOf(active_locks', k).waiting_readers
                /\ StateOf(k, c)' = HELD]_vars

\* C9: a write acquire by a client whose request is HELD with the client in
\* readers is answered ERR_INVALID_REENTRY only, and nothing changes: the
\* lock, the request and the pending tasks.
C9_UpgradeRefusedUnchanged ==
    [][\A k \in LockKeys, c \in Clients :
          \A r \in RoutingIds(c), t \in Timeouts(c) :
             (/\ StateOf(k, c) = HELD
              /\ c \in DOMAIN active_locks[k].readers
              /\ AcquireFrame(r, k, c, t, FALSE))
             => /\ sent' = <<<<r, ERR_INVALID_REENTRY>>>>
                /\ crashed' = "none"
                /\ UNCHANGED <<active_locks, active_requests, tasks>>]_vars

\* A HELD reader has just been refused the upgrade.
C9_Witness ==
    \E k \in LockKeys, c \in Clients :
        /\ \E r \in RoutingIds(c) : sent = <<<<r, ERR_INVALID_REENTRY>>>>
        /\ calls = <<[op |-> "acquire", key |-> k, client_id |-> c, read_only |-> FALSE,
                      raised |-> "InvalidReentry", ret |-> FALSE]>>
        /\ StateOf(k, c) = HELD
        /\ c \in DOMAIN active_locks[k].readers
        /\ Pending(<<k, c>>, "timeout_release") # {}
        /\ crashed = "none"

\* C10: an acquire or release frame for a slot whose request is
\* PRESENT_WAITING is answered ERR_CONCURRENT to its sender, and nothing else
\* changes: the request, its retry-advice task and the lock.
C10_ConcurrentRejected ==
    [][\A k \in Keys, c \in Clients :
          \A r \in RoutingIds(c) :
             (/\ StateOf(k, c) = PRESENT_WAITING
              /\ \/ \E t \in Timeouts(c), ro \in Modes(c) : AcquireFrame(r, k, c, t, ro)
                 \/ \E ord \in Orders(active_locks, k) : ReleaseFrame(r, k, c, ord))
             => /\ sent' = <<<<r, ERR_CONCURRENT>>>>
                /\ crashed' = "none"
                /\ UNCHANGED <<active_locks, active_requests, tasks>>]_vars

\* A frame from routing id r2 has just been rejected for a slot that waits,
\* asked for from routing id r1, with its retry advice still pending.
C10_Witness ==
    \E k \in Keys, c \in Clients :
        /\ sent = <<<<"r2", ERR_CONCURRENT>>>>
        /\ StateOf(k, c) = PRESENT_WAITING
        /\ active_requests[<<k, c>>].routing_id = "r1"
        /\ Pending(<<k, c>>, "advise_retry") # {}
        /\ RoutingIds(c) = {"r1", "r2"}
        /\ crashed = "none"

\* ---------------------------------------------------------------- C11
\* The request of slot <<k, c>> is granted in this step by the release of
\* another client: reply ok to its stored routing id, no retry advice pending
\* any more, state HELD
GrantedByRelease(k, c) ==
    /\ \E i \in 1..Len(calls') :
          /\ calls'[i].op = "release"
          /\ calls'[i].client_id # c
          /\ c \in calls'[i].ret
    /\ sent' # <<>>
    /\ <<active_requests[<<k, c>>].routing_id, "ok">> \in Range(sent')
    /\ Pending(<<k, c>>, "advise_retry")' = {}
    /\ StateOf(k, c)' = HELD

\* The retry-advice task of slot <<k, c>> is due and fires in this step: reply
\* retry to the stored routing id, give-up scheduled MAX_ABSENT_TIME later,
\* state ABSENT_WAITING
RetryAdvised(k, c) ==
    /\ tasks # <<>>
    /\ TaskQueue_next(tasks) = active_requests[<<k, c>>].advise_retry_task
    /\ TaskQueue_next(tasks).due_in <= 0
    /\ sent' = <<<<active_requests[<<k, c>>].routing_id, "retry">>>>
    /\ StateOf(k, c)' = ABSENT_WAITING
    /\ active_requests'[<<k, c>>].give_up_task = Task("give_up", k, c, MAX_ABSENT_TIME)
    /\ Pending(<<k, c>>, "give_up")' # {}
    /\ Pending(<<k, c>>, "advise_retry")' = {}

\* C11 (entry): a request that enters PRESENT_WAITING has its retry advice due
\* MAX_RESPONSE_TIME later. Holds.
C11_Entry ==
    [][\A k \in Keys, c \in Clients :
          (StateOf(k, c) # PRESENT_WAITING /\ StateOf(k, c)' = PRESENT_WAITING)
          => /\ active_requests'[<<k, c>>].advise_retry_task
                   = Task("advise_retry", k, c, MAX_RESPONSE_TIME)
             /\ Pending(<<k, c>>, "advise_retry")' # {}]_vars

\* C11 (the two ways out): a request leaves PRESENT_WAITING only by a grant
\* from another client's release or by its retry advice firing. Holds.
C11_Leaves ==
    [][\A k \in Keys, c \in Clients :
          (StateOf(k, c) = PRESENT_WAITING /\ StateOf(k, c)' # PRESENT_WAITING)
          => GrantedByRelease(k, c) \/ RetryAdvised(k, c)]_vars

\* C11: every PRESENT_WAITING request eventually leaves that state when due
\* tasks are fired: in every state such a request has its retry advice
\* pending in a loop that is alive to fire it.
C11_PresentWaitingCanLeave ==
    \A k \in Keys, c \in Clients :
        StateOf(k, c) = PRESENT_WAITING
        => crashed = "none" /\ Pending(<<k, c>>, "advise_retry") # {}

\* C11 (while run() is alive): every PRESENT_WAITING request has its retry
\* advice pending. Holds.
C11_CanLeaveAlive ==
    crashed = "none" =>
        \A k \in Keys, c \in Clients :
            StateOf(k, c) = PRESENT_WAITING => Pending(<<k, c>>, "advise_retry") # {}

\* ---------------------------------------------------------------- C12
\* The step fires the due task of this kind of slot <<k, c>>
FireStep(kind, k, c) ==
    /\ tasks # <<>>
    /\ TaskQueue_next(tasks).kind = kind
    /\ TaskQueue_next(tasks).key = k
    /\ TaskQueue_next(tasks).client_id = c
    /\ \E ord \in Orders(active_locks, k) : FireTask(ord)

\* A lock with no holder and no waiter
Unused(L) ==
    /\ L.writer = None
    /\ DOMAIN L.readers = {}
    /\ L.waiting_readers = {}
    /\ L.waiting_writers = {}

\* Lock L without client c in its waiting sets
NotWaiting(L, c) ==
    [L EXCEPT !.waiting_readers = @ \ {c}, !.waiting_writers = @ \ {c}]

\* C12: when the give-up task of an ABSENT_WAITING request fires, the client
\* leaves the lock's waiting set, the request leaves the request table, no
\* reply is sent, and the lock leaves the lock table if it became empty;
\* nothing else changes.
C12_GiveUpOnAbsence ==
    [][\A k \in Keys, c \in Clients :
          (StateOf(k, c) = ABSENT_WAITING /\ FireStep("give_up", k, c))
          => /\ crashed' = "none"
             /\ sent' = <<>>
             /\ active_requests' = DictDel(active_requests, <<k, c>>)
             /\ tasks' = SubSeq(tasks, 1, Len(tasks) - 1)
             /\ LET L == NotWaiting(LockOf(active_locks, k), c) IN
                IF Unused(L) THEN k \notin DOMAIN active_locks'
                ELSE k \in DOMAIN active_locks' /\ active_locks'[k] = L]_vars

\* The give-up task of a slot has just fired: the client no longer waits, its
\* request is gone and nothing was sent.
C12_Witness ==
    \E k \in LockKeys, c \in Clients :
        /\ calls = <<[op |-> "give_up", key |-> k, client_id |-> c]>>
        /\ sent = <<>>
        /\ <<k, c>> \notin Slots
        /\ c \notin active_locks[k].waiting_readers \cup active_locks[k].waiting_writers
        /\ crashed = "none"

\* The give-up task of a slot has just fired and the lock is gone with it
C12_LockGone ==
    \E k \in Keys, c \in Clients :
        /\ calls = <<[op |-> "give_up", key |-> k, client_id |-> c]>>
        /\ k \notin LockKeys

\* ---------------------------------------------------------------- C13
\* The clients that the Lock.release call of this step granted the lock to
\* (empty when the step made no such call)
Granted ==
    IF \E i \in 1..Len(calls') : calls'[i].op = "release"
    THEN (CHOOSE x \in Range(calls') : x.op = "release").ret
    ELSE {}

\* The replies of a step that releases lock k: the reply to a release frame,
\* and one ok per granted client that was present
ReleaseReplies(k) ==
    (IF calls'[1].fully THEN 0 ELSE 1)
    + Cardinality({x \in Granted : StateOf(k, x) = PRESENT_WAITING})

\* C13 (grant while absent): a grant to a client whose request is
\* ABSENT_WAITING sends that client nothing, cancels its give-up, makes the
\* request ABSENT_HELD and schedules a lease due MAX_ABSENT_TIME later
C13_GrantWhileAbsent(k, c) ==
    (StateOf(k, c) = ABSENT_WAITING /\ c \in Granted)
    => /\ crashed' = "none"
       /\ Len(sent') = ReleaseReplies(k)
       /\ StateOf(k, c)' = ABSENT_HELD
       /\ active_requests'[<<k, c>>].give_up_task = NoTask
       /\ Pending(<<k, c>>, "give_up")' = {}
       /\ active_requests'[<<k, c>>].timeout_task
             = Task("timeout_release", k, c, MAX_ABSENT_TIME)
       /\ Cardinality(Pending(<<k, c>>, "timeout_release")') = 1
       /\ Holder(k, c)'

\* C13 (absent lease fires): the client is fully released, its request is
\* removed, and the waiting clients the release makes room for are granted:
\* the lock is not left free while clients wait for it
C13_AbsentLeaseFires(k, c) ==
    (StateOf(k, c) = ABSENT_HELD /\ FireStep("timeout_release", k, c))
    => /\ crashed' = "none"
       /\ ~Holder(k, c)'
       /\ <<k, c>> \notin Slots'
       /\ Len(calls') = 1 /\ calls'[1].op = "release" /\ calls'[1].fully
       /\ calls'[1].raised = "none"
       /\ \A x \in Granted : Holder(k, x)' /\ StateOf(k, x)' \in {HELD, ABSENT_HELD}
       /\ LET L == LockOf(active_locks', k) IN
          (L.writer = None /\ DOMAIN L.readers = {})
          => (L.waiting_writers = {} /\ L.waiting_readers = {})

C14_ClaimAbsentHeld ==
    [][\A k \in Keys, c \in Clients :
          \A r \in RoutingIds(c), t \in Timeouts(c), ro \in Modes(c) :
             (StateOf(k, c) = ABSENT_HELD /\ AcquireFrame(r, k, c, t, ro))
             => /\ crashed' = "none"
                /\ sent' = <<<<r, "ok">>>>
                /\ StateOf(k, c)' = HELD
                /\ active_requests'[<<k, c>>].timeout_task = Task("timeout_release", k, c, t)
                /\ tasks' = TaskQueue_add(ListRemove(tasks, active_requests[<<k, c>>].timeout_task),
                                          Task("timeout_release", k, c, t))
                /\ Cardinality(Pending(<<k, c>>, "timeout_release")') = 1
                /\ UNCHANGED active_locks]_vars

\* A client has just claimed, from routing id r2, a lock that was granted
\* while it was absent to a request made from r1: the reply went to r2 with
\* no call on the lock, and the request is HELD under the lease asked for.
C14_Witness ==
    \E k \in LockKeys, c \in Clients, t \in 0..MaxTimeout :
        /\ sent = <<<<"r2", "ok">>>>
        /\ calls = <<>>
        /\ StateOf(k, c) = HELD
        /\ active_requests[<<k, c>>].routing_id = "r1"
        /\ active_requests[<<k, c>>].timeout_task = Task("timeout_release", k, c, t)
        /\ Holder(k, c)
        /\ crashed = "none"

\* ---------------------------------------------------------------- C15
Max(a, b) == IF a >= b THEN a ELSE b

\* C15: after a successful reentry acquire with timeout t on a HELD request,
\* the lease is due at the later of its old deadline and t from now; it is
\* replaced only when t from now is strictly later, and exactly one lease
\* task is pending.
C15_LeaseOnlyExtended ==
    [][\A k \in Keys, c \in Clients :
          \A r \in RoutingIds(c), t \in Timeouts(c), ro \in Modes(c) :
             (/\ StateOf(k, c) = HELD
              /\ AcquireFrame(r, k, c, t, ro)
              /\ sent' = <<<<r, "ok">>>>)
             => LET old == active_requests[<<k, c>>].timeout_task
                    new == active_requests'[<<k, c>>].timeout_task IN
                /\ crashed' = "none"
                /\ StateOf(k, c)' = HELD
                /\ new.kind = "timeout_release"
                /\ new.due_in = Max(old.due_in, t)
                /\ new.due_in >= old.due_in
                /\ (t <= old.due_in) => (tasks' = tasks /\ new = old)
                /\ (t > old.due_in) =>
                      tasks' = TaskQueue_add(ListRemove(tasks, old),
                                             Task("timeout_release", k, c, t))
                /\ Cardinality(Pending(<<k, c>>, "timeout_release")') = 1]_vars

\* A reentry has just been accepted and has extended a lease: the request
\* was made with timeout 0, and its lease is now due MaxTimeout from now.
C15_Witness ==
    \E k \in LockKeys, c \in Clients :
        /\ \E r \in RoutingIds(c) : sent = <<<<r, "ok">>>>
        /\ Len(calls) = 1 /\ calls[1].op = "acquire" /\ calls[1].client_id = c
        /\ calls[1].ret
        /\ Level(k, c) = 2
        /\ StateOf(k, c) = HELD
        /\ active_requests[<<k, c>>].timeout = 0
        /\ active_requests[<<k, c>>].timeout_task.due_in = MaxTimeout
        /\ crashed = "none"

\* ---------------------------------------------------------------- C16
\* C16: after every handled frame or fired task, a key is in the active-lock
\* table exactly when its lock has a member in readers, writer,
\* waiting_readers or waiting_writers: every lock in the table has a member
\* and is not marked invalid (a lock whose last member left has been removed;
\* a lock that is not in the table has no member, being no lock at all).
C16_LockTableRefcount ==
    \A k \in LockKeys : ~Unused(active_locks[k]) /\ ~active_locks[k].invalid

\* The release of the last member of a lock has just removed the lock from
\* the table.
C16_Witness ==
    \E k \in Keys, c \in Clients :
        /\ Len(calls) = 1
        /\ calls[1].op = "release" /\ calls[1].key = k /\ calls[1].client_id = c
        /\ calls[1].raised = "none"
        /\ calls[1].ret = {}
        /\ k \notin LockKeys
        /\ crashed = "none"

\* ---------------------------------------------------------------- C17
\* C17: after every handled frame or fired task, every entry of the
\* active-request table is a request that is outstanding or held (state
\* PRESENT_WAITING, ABSENT_WAITING, ABSENT_HELD or HELD).
C17_RequestTableLifecycle ==
    crashed = "none" =>
        \A s \in Slots :
            active_requests[s].state \in {PRESENT_WAITING, ABSENT_WAITING, ABSENT_HELD, HELD}

\* C17 (in particular): a release frame for a slot that is not tracked is
\* answered ERR_NOT_HELD and leaves the request table unchanged.
C17_UntrackedRelease ==
    [][\A k \in Keys, c \in Clients :
          \A r \in RoutingIds(c) :
             (/\ <<k, c>> \notin Slots
              /\ \E ord \in Orders(active_locks, k) : ReleaseFrame(r, k, c, ord))
             => /\ sent' = <<<<r, ERR_NOT_HELD>>>>
                /\ UNCHANGED active_requests]_vars

\* ---------------------------------------------------------------- C18
\* Client c is the only member of lock k, which it holds n times over in the
\* given mode (n = 0: the lock is not in the table)
OnlyMember(locks, k, c, read_only, n) ==
    IF n = 0 THEN k \notin DOMAIN locks
    ELSE /\ k \in DOMAIN locks
         /\ locks[k] = IF read_only
                       THEN [NewLock EXCEPT !.readers = DictSet(EmptyDict, c, n)]
                       ELSE [NewLock EXCEPT !.writer = c, !.writer_reentrancy_level = n]

\* C18: for a lock used by one client in one mode, every acquire succeeds and
\* raises the reentry level by one; every release with fully=False returns
\* the empty set and lowers the level by one, and the release at level 1
\* leaves the lock with no member and removes it from the table. So N
\* acquires and N releases leave level N-j after the j-th release and no lock
\* after the N-th.
C18_LockRoundTrip ==
    [][\A k \in Keys, c \in Clients, read_only \in BOOLEAN, n \in 0..MaxReentry :
          OnlyMember(active_locks, k, c, read_only, n)
          => /\ LockAcquire(k, c, read_only)
                => /\ calls'[1].ret /\ calls'[1].raised = "none"
                   /\ OnlyMember(active_locks', k, c, read_only, n + 1)
             /\ (n >= 1 /\ \E ord \in Orders(active_locks, k) : LockRelease(k, c, FALSE, ord))
                => /\ calls'[1].ret = {} /\ calls'[1].raised = "none"
                   /\ OnlyMember(active_locks', k, c, read_only, n - 1)]_vars

\* The last of the releases of a client that was the only member of a lock
\* has just removed the lock from the table.
C18_Witness ==
    \E k \in Keys, c \in Clients :
        /\ calls = <<[op |-> "release", key |-> k, client_id |-> c, fully |-> FALSE,
                      raised |-> "none", branch |-> "writer", ret |-> {}]>>
        /\ k \notin LockKeys

\* A release has just left its client the only member of a lock, one level
\* down from MaxReentry.
C18_StillHeld ==
    \E k \in Keys, c \in Clients :
        /\ calls = <<[op |-> "release", key |-> k, client_id |-> c, fully |-> FALSE,
                      raised |-> "none", branch |-> "reader", ret |-> {}]>>
        /\ OnlyMember(active_locks, k, c, TRUE, MaxReentry - 1)

\* ---------------------------------------------------------------- C19
\* n successive Lock.instance(k).release(c, fully=False), stopping at the
\* first that raises
RECURSIVE ReleaseTimes(_, _, _, _, _)
ReleaseTimes(S, k, c, n, ord) ==
    IF n = 0 \/ ~Ok(S) THEN S
    ELSE ReleaseTimes(Lock_release(Lock_instance(S, k), k, c, FALSE, ord), k, c, n - 1, ord)

\* The clients granted by the calls that S logs
GrantedBy(S) == UNION {S.calls[i].ret : i \in 1..Len(S.calls)}

\* C19: in every lock state in which client c holds at level N >= 1, one
\* release(c, fully=True) and N release(c, fully=False) both succeed, end in
\* the same lock state (up to which waiting writer is popped) and grant the
\* same clients.
C19_FullEqualsSingles ==
    \A k \in LockKeys, c \in Clients :
        Holder(k, c)
        => \A ord \in Orders(active_locks, k) :
              \E ord2 \in Orders(active_locks, k) :
                 LET full == Lock_release(Lock_instance(Begin, k), k, c, TRUE, ord)
                     singles == ReleaseTimes(Begin, k, c, Level(k, c), ord2) IN
                 /\ Ok(full)
                 /\ Ok(singles)
                 /\ full.active_locks = singles.active_locks
                 /\ GrantedBy(full) = GrantedBy(singles)

\* ---------------------------------------------------------------- C20
\* C20 (the stop frames): while stopping is false a stop frame is answered
\* ERR_INVALID_COMMAND, the loop goes on and locks, requests and tasks are
\* unchanged; while it is true the frame is answered ok to its sender and the
\* loop exits. Holds.
C20_StopFrames ==
    [][\A r \in StopSenders :
          StopFrame(r)
          => IF stopping
             THEN sent' = <<<<r, "ok">>>> /\ crashed' = "break"
             ELSE /\ sent' = <<<<r, ERR_INVALID_COMMAND>>>>
                  /\ crashed' = "none"
                  /\ UNCHANGED <<active_locks, active_requests, tasks>>]_vars

\* C20: a stop frame while stopping is false is answered ERR_INVALID_COMMAND
\* and changes nothing, and the loop exits only on a stop frame received
\* while stopping is true, after the reply ok to the sender of that frame.
C20_StopGating ==
    [][/\ \A r \in StopSenders :
             (~stopping /\ StopFrame(r))
             => /\ sent' = <<<<r, ERR_INVALID_COMMAND>>>>
                /\ crashed' = "none"
                /\ UNCHANGED <<active_locks, active_requests, tasks>>
       /\ (crashed = "none" /\ crashed' # "none")
             => /\ stopping
                /\ \E r \in StopSenders : StopFrame(r) /\ sent' = <<<<r, "ok">>>>]_vars

\* ---------------------------------------------------------------- C21
\* C21: whenever run() pops and fires a task (the queue is not empty and its
\* last task is due), no other task of the queue is due strictly sooner than
\* the task that is popped, whatever adds and cancels built the queue.
C21_TaskOrdering ==
    (crashed = "none" /\ tasks # <<>> /\ TaskQueue_next(tasks).due_in <= 0)
    => \A i \in 1..Len(tasks) : ~(tasks[i].due_in < TaskQueue_next(tasks).due_in)

\* A task is due to fire while tasks that are due later, at two different
\* times, stay in the queue
C21_Witness ==
    /\ crashed = "none"
    /\ tasks # <<>>
    /\ TaskQueue_next(tasks).due_in <= 0
    /\ \E i, j \in 1..Len(tasks) :
          /\ TaskQueue_next(tasks).due_in < tasks[i].due_in
          /\ tasks[i].due_in < tasks[j].due_in

\* ---------------------------------------------------------------- C22
\* C22: after every handled frame or fired task, for every request in the
\* active-request table the queue holds at most one advise_retry task, at most
\* one give_up task and at most one timeout_release task of that request.
C22_OneTimerPerKind ==
    \A s \in Slots, kind \in Kinds : Cardinality(Pending(s, kind)) <= 1

\* c1 holds the lock at level 2 on a lease of MaxTimeout seconds that its
\* reentry started, since c2 came to wait a second ago: the lease of the first
\* acquire was cancelled, and the request has one lease
C22_Witness ==
    \E k \in LockKeys :
        /\ crashed = "none"
        /\ Level(k, "c1") = 2
        /\ StateOf(k, "c1") = HELD
        /\ active_requests[<<k, "c1">>].timeout_task.due_in = MaxTimeout
        /\ Cardinality(Pending(<<k, "c1">>, "timeout_release")) = 1
        /\ StateOf(k, "c2") = PRESENT_WAITING
        /\ active_requests[<<k, "c2">>].advise_retry_task.due_in < MAX_RESPONSE_TIME

\* ---------------------------------------------------------------- C23
\* C23: in every reachable state, for every lock, no client is both a key of
\* readers and a member of waiting_writers, also when a write acquire reaches
\* the lock through a new (INITIAL) request of a client that is still a reader.
C23_NoReaderQueuedAsWriter ==
    \A k \in LockKeys, c \in Clients :
        ~(c \in DOMAIN active_locks[k].readers /\ c \in active_locks[k].waiting_writers)

\* A write acquire of c1, still a reader, has reached Lock.acquire through a
\* new request: Lock.acquire raised InvalidReentry and queued nothing
C23_Witness ==
    \E k \in LockKeys :
        /\ "c1" \in DOMAIN active_locks[k].readers
        /\ StateOf(k, "c1") = INITIAL
        /\ Len(calls) = 1
        /\ calls[1] = [op |-> "acquire", key |-> k, client_id |-> "c1", read_only |-> FALSE,
                       raised |-> "InvalidReentry", ret |-> FALSE]
        /\ "c1" \notin active_locks[k].waiting_writers

\* ---------------------------------------------------------------- C24
\* C24: in every reachable state every entry of readers has a count of at
\* least 1, writer_reentrancy_level is at least 1 whenever writer is set, and
\* it is 0 whenever writer is unset.
C24_PositiveCounts ==
    \A k \in LockKeys :
        LET L == active_locks[k] IN
        /\ \A c \in DOMAIN L.readers : L.readers[c] >= 1
        /\ L.writer # None => L.writer_reentrancy_level >= 1
        /\ L.writer = None => L.writer_reentrancy_level = 0

\* The lease of a writer has expired and its full release has let the waiting
\* readers in: writer is unset, the level is 0 and every reader counts 1
C24_Witness ==
    \E k \in LockKeys :
        /\ Len(calls) = 1
        /\ calls[1].op = "release" /\ calls[1].fully /\ calls[1].branch = "writer"
        /\ calls[1].ret # {}
        /\ active_locks[k].writer = None
        /\ active_locks[k].writer_reentrancy_level = 0
        /\ calls[1].ret \subseteq DOMAIN active_locks[k].readers

\* ---------------------------------------------------------------- C25
\* C25: an acquire frame for a slot whose request is HELD, whatever the mode
\* in which the lock is held and whatever mode the frame asks for, is answered
\* with exactly one of ok and ERR_INVALID_REENTRY, leaves the request HELD and
\* adds the client to no waiting set.
C25_HeldAcquireOutcome ==
    [][\A k \in Keys, c \in Clients :
          \A r \in RoutingIds(c), t \in Timeouts(c), ro \in Modes(c) :
             (/\ StateOf(k, c) = HELD
              /\ AcquireFrame(r, k, c, t, ro))
             => /\ sent' \in {<<<<r, "ok">>>>, <<<<r, ERR_INVALID_REENTRY>>>>}
                /\ StateOf(k, c)' = HELD
                /\ c \notin LockOf(active_locks', k).waiting_readers
                /\ c \notin LockOf(active_locks', k).waiting_writers]_vars

\* ---------------------------------------------------------------- C26
\* Client c holds lock L in the mode that read_only names
HoldsInMode(L, c, read_only) ==
    IF read_only THEN c \in DOMAIN L.readers
    ELSE L.writer = c /\ DOMAIN L.readers = {}

\* C26: whenever the server sends ok in answer to an acquire frame, the client
\* holds the lock in the mode of that frame at that moment: when the frame
\* itself is answered ok (from INITIAL, HELD, ABSENT_HELD or after a change of
\* mode), and when a waiting request is answered ok by the release of another
\* client.
C26_GrantedModeMatches ==
    [][/\ \A k \in Keys, c \in Clients :
             \A r \in RoutingIds(c), t \in Timeouts(c), ro \in Modes(c) :
                (/\ <<r, "ok">> \in Range(sent')
                 /\ AcquireFrame(r, k, c, t, ro))
                => HoldsInMode(LockOf(active_locks', k), c, ro)
       /\ \A k \in Keys, c \in Clients :
             (/\ StateOf(k, c) = PRESENT_WAITING
              /\ StateOf(k, c)' = HELD
              /\ crashed' = "none")
             => HoldsInMode(LockOf(active_locks', k), c, active_requests[<<k, c>>].read_only)]_vars

\* ---------------------------------------------------------------- C27
\* C27: Lock.release(c, fully=False) called by the writer c at a level of 2 or
\* more lowers the level by one and leaves writer, readers and both waiting
\* sets as they are, and returns the empty set, whatever clients wait; called
\* by a reader c whose count is 2 or more it lowers the count by one, leaves
\* the rest as it is and returns the empty set.
C27_PartialReleaseKeepsHold ==
    [][\A k \in LockKeys, c \in Clients :
          \A ord \in Orders(active_locks, k) :
             LET L == active_locks[k] IN
             /\ (/\ L.writer = c
                 /\ c \notin DOMAIN L.readers
                 /\ L.writer_reentrancy_level >= 2
                 /\ LockRelease(k, c, FALSE, ord))
                => /\ active_locks'[k] = [L EXCEPT !.writer_reentrancy_level = @ - 1]
                   /\ calls'[1].raised = "none"
                   /\ calls'[1].ret = {}
             /\ (/\ c \in DOMAIN L.readers
                 /\ L.readers[c] >= 2
                 /\ LockRelease(k, c, FALSE, ord))
                => /\ active_locks'[k] = [L EXCEPT !.readers[c] = @ - 1]
                   /\ calls'[1].raised = "none"
                   /\ calls'[1].ret = {}]_vars

\* ---------------------------------------------------------------- C28
\* C28: after every handled frame or fired task, every lock whose
\* waiting_readers is not empty has a writer or a waiting writer.
C28_NoLostWakeup ==
    crashed = "none" =>
        \A k \in LockKeys :
            active_locks[k].waiting_readers # {}
            => (active_locks[k].writer # None \/ active_locks[k].waiting_writers # {})

\* ---------------------------------------------------------------- C29
\* Client c is in the waiting set of lock k that the mode of its request names
\* (read_only is None, which is not true, until the first acquire frame)
InWaitingSet(k, c) ==
    /\ <<k, c>> \in Slots
    /\ IF active_requests[<<k, c>>].state # INITIAL /\ active_requests[<<k, c>>].read_only
       THEN c \in LockOf(active_locks, k).waiting_readers
       ELSE c \in LockOf(active_locks, k).waiting_writers

\* C29: after every handled frame or fired task, for every key k and client
\* c, c is in the waiting set of lock k that its request names if and only if
\* the request is PRESENT_WAITING or ABSENT_WAITING, and c holds lock k if and
\* only if the request is HELD or ABSENT_HELD.
C29_StateAgreesWithLock ==
    crashed = "none" =>
        \A k \in Keys, c \in Clients :
            /\ InWaitingSet(k, c) <=> StateOf(k, c) \in {PRESENT_WAITING, ABSENT_WAITING}
            /\ Holder(k, c) <=> StateOf(k, c) \in {HELD, ABSENT_HELD}

\* ---------------------------------------------------------------- C30
\* The frames that wait for their reply: the requests in PRESENT_WAITING
Outstanding ==
    Cardinality({s \in Slots : active_requests[s].state = PRESENT_WAITING})

\* C30: every well-formed hello, acquire or release frame gets exactly one
\* reply, at once or later: the handler of a frame sends one reply or leaves
\* one more frame waiting for its reply, never both and never neither, and a
\* fired task sends one reply for each waiting frame it settles and no other.
C30_OneReplyPerFrame ==
    [][IF Tick THEN TRUE
       ELSE IF /\ tasks # <<>>
               /\ TaskQueue_next(tasks).due_in <= 0
               /\ \E ord \in Orders(active_locks, TaskQueue_next(tasks).key) : FireTask(ord)
       THEN Len(sent') + Outstanding' - Outstanding = 0
       ELSE Len(sent') + Outstanding' - Outstanding = 1]_vars

\* ---------------------------------------------------------------- C31
\* C31: after every handled frame or fired task, a request has a pending
\* advise_retry task if and only if it is PRESENT_WAITING, a pending give_up
\* task if and only if it is ABSENT_WAITING and a pending timeout_release task
\* if and only if it is HELD or ABSENT_HELD; every task in the queue is a task
\* of a request in the table; and TaskQueue.cancel is never called on a task
\* that is not in the queue (list.remove would raise ValueError).
C31_TimersMatchState ==
    /\ crashed # "ValueError"
    /\ crashed = "none" =>
          /\ \A s \in Slots :
                LET st == active_requests[s].state IN
                /\ (Pending(s, "advise_retry") # {}) <=> st = PRESENT_WAITING
                /\ (Pending(s, "give_up") # {}) <=> st = ABSENT_WAITING
                /\ (Pending(s, "timeout_release") # {}) <=> st \in {HELD, ABSENT_HELD}
          /\ \A i \in 1..Len(tasks) :
                /\ <<tasks[i].key, tasks[i].client_id>> \in Slots
                /\ Handle(active_requests[<<tasks[i].key, tasks[i].client_id>>], tasks[i].kind)
                      = tasks[i]

\* A waiting request has just been granted the lock by the release of the
\* holder: its advise_retry task was cancelled and its lease runs, while one
\* request waits absent on its give_up task
C31_Witness ==
    \E k \in LockKeys, c, d \in Clients :
        /\ crashed = "none"
        /\ Len(calls) = 1 /\ calls[1].op = "release" /\ calls[1].ret = {c}
        /\ StateOf(k, c) = HELD
        /\ <<active_requests[<<k, c>>].routing_id, "ok">> \in Range(sent)
        /\ Pending(<<k, c>>, "advise_retry") = {}
        /\ Pending(<<k, c>>, "timeout_release") # {}
        /\ StateOf(k, d) = ABSENT_WAITING
        /\ Pending(<<k, d>>, "give_up") # {}

\* ---------------------------------------------------------------- C32
\* C32: when the release of the writer clears writer while no writer waits
\* and readers wait, every waiting reader is in readers with a count of 1 and
\* waiting_readers is empty after that one step, and in the same step every
\* such reader whose request is PRESENT_WAITING is sent ok and becomes HELD and
\* every one whose request is ABSENT_WAITING becomes ABSENT_HELD.
C32_BatchGrant ==
    [][\A k \in LockKeys, c \in Clients, fully \in BOOLEAN :
          (/\ active_locks[k].writer = c
           /\ c \notin DOMAIN active_locks[k].readers
           /\ fully \/ active_locks[k].writer_reentrancy_level = 1
           /\ active_locks[k].waiting_writers = {}
           /\ active_locks[k].waiting_readers # {}
           /\ ReleaseStep(k, c, fully))
          => /\ crashed' = "none"
             /\ LockOf(active_locks', k).writer = None
             /\ LockOf(active_locks', k).waiting_readers = {}
             /\ calls'[1].ret = active_locks[k].waiting_readers
             /\ \A x \in active_locks[k].waiting_readers :
                   /\ x \in DOMAIN LockOf(active_locks', k).readers
                   /\ LockOf(active_locks', k).readers[x] = 1
                   /\ StateOf(k, x) \in {PRESENT_WAITING, ABSENT_WAITING}
                   /\ StateOf(k, x) = PRESENT_WAITING
                      => /\ StateOf(k, x)' = HELD
                         /\ <<active_requests[<<k, x>>].routing_id, "ok">> \in Range(sent')
                   /\ StateOf(k, x) = ABSENT_WAITING
                      => StateOf(k, x)' = ABSENT_HELD]_vars

\* The release of a writer has just granted two waiting readers at once: one
\* was present and is HELD, the other was absent and is ABSENT_HELD
C32_Witness ==
    \E k \in LockKeys, x, y \in Clients :
        /\ crashed = "none"
        /\ Len(calls) = 1
        /\ calls[1].op = "release" /\ calls[1].branch = "writer"
        /\ calls[1].ret = {x, y} /\ x # y
        /\ active_locks[k].writer = None
        /\ active_locks[k].waiting_readers = {}
        /\ active_locks[k].readers[x] = 1 /\ active_locks[k].readers[y] = 1
        /\ StateOf(k, x) = HELD
        /\ StateOf(k, y) = ABSENT_HELD
        /\ Len(sent) = 2

C34_ModeChangeWhileAbsent ==
    [][\A k \in Keys, c \in Clients :
          \A r \in RoutingIds(c), t \in Timeouts(c), ro \in Modes(c) :
             (/\ StateOf(k, c) = ABSENT_WAITING
              /\ active_requests[<<k, c>>].read_only # ro
              /\ AcquireFrame(r, k, c, t, ro))
             => LET L == LockOf(active_locks', k)
                    R == active_requests'[<<k, c>>]
                IN  /\ crashed' = "none"
                    /\ Pending(<<k, c>>, "give_up")' = {}
                    /\ R.read_only = ro
                    /\ IF ro THEN c \notin L.waiting_writers ELSE c \notin L.waiting_readers
                    /\ \/ /\ sent' = <<<<r, "ok">>>>
                          /\ R.state = HELD
                          /\ HoldsInMode(L, c, ro)
                          /\ c \notin L.waiting_readers \cup L.waiting_writers
                          /\ R.timeout_task = Task("timeout_release", k, c, t)
                          /\ Pending(<<k, c>>, "timeout_release")' # {}
                          /\ Pending(<<k, c>>, "advise_retry")' = {}
                       \/ /\ sent' = <<>>
                          /\ R.state = PRESENT_WAITING
                          /\ IF ro THEN c \in L.waiting_readers ELSE c \in L.waiting_writers
                          /\ R.advise_retry_task = Task("advise_retry", k, c, MAX_RESPONSE_TIME)
                          /\ Pending(<<k, c>>, "advise_retry")' # {}
                          /\ Pending(<<k, c>>, "timeout_release")' = {}]_vars

\* c1, absent and queued in one mode, has just asked for the other mode: the
\* handler gave up the old place and acquired again, and c1 waits in the
\* waiting set of the new mode
C34_Witness ==
    \E k \in LockKeys :
        /\ crashed = "none"
        /\ Len(calls) = 2
        /\ calls[1] = [op |-> "give_up", key |-> k, client_id |-> "c1"]
        /\ calls[2].op = "acquire" /\ calls[2].client_id = "c1" /\ ~calls[2].ret
        /\ StateOf(k, "c1") = PRESENT_WAITING
        /\ active_requests[<<k, "c1">>].read_only = calls[2].read_only
        /\ IF calls[2].read_only
           THEN "c1" \in active_locks[k].waiting_readers
                /\ "c1" \notin active_locks[k].waiting_writers
           ELSE "c1" \in active_locks[k].waiting_writers
                /\ "c1" \notin active_locks[k].waiting_readers

\* The same change of mode, after which c1 holds the lock in the new mode
C34_Granted ==
    \E k \in LockKeys :
        /\ crashed = "none"
        /\ Len(calls) = 2
        /\ calls[1] = [op |-> "give_up", key |-> k, client_id |-> "c1"]
        /\ calls[2].op = "acquire" /\ calls[2].client_id = "c1" /\ calls[2].ret
        /\ StateOf(k, "c1") = HELD

\* ---------------------------------------------------------------- C35
\* The handler that has just returned is an acquire of slot <<k, c>> with
\* timeout 0 that was granted at level 1: its lease is due (no Tick is
\* possible while a task is due, so calls and sent are those of that handler)
JustGrantedZero(k, c) ==
    /\ crashed = "none"
    /\ StateOf(k, c) = HELD
    /\ Level(k, c) = 1
    /\ active_requests[<<k, c>>].timeout = 0
    /\ active_requests[<<k, c>>].timeout_task = Task("timeout_release", k, c, 0)
    /\ Len(calls) = 1
    /\ calls[1].op = "acquire" /\ calls[1].client_id = c /\ calls[1].ret
    /\ sent = <<<<active_requests[<<k, c>>].routing_id, "ok">>>>

C36_StopAcknowledged ==
    (stopping /\ crashed = "break") => sent = <<<<StopSocket, "ok">>>>

\* ---------------------------------------------------------------- C37
\* C37: TaskQueue.cancel(task) removes the task when it is in the queue, and
\* when it is not (fired, cancelled before or never added) it leaves the
\* queue as it is and raises nothing.
C37_CancelIdempotent ==
    [][\A task \in QueueTasks :
          QueueCancel(task)
          => /\ calls'[1].raised = "none"
             /\ task \notin Range(tasks')
             /\ task \notin Range(tasks) => tasks' = tasks
             /\ \A x \in Range(tasks) \ {task} : x \in Range(tasks')]_vars

\* C37 (the part that holds): a cancel of a task that is in the queue raises
\* nothing and removes that task and no other, so that it is never popped and
\* called afterwards.
C37_CancelPending ==
    [][\A task \in QueueTasks :
          (task \in Range(tasks) /\ QueueCancel(task))
          => /\ calls'[1].raised = "none"
             /\ Range(tasks') = Range(tasks) \ {task}
             /\ Len(tasks') = Len(tasks) - 1]_vars

====
